---- MODULE Spec2Model ----
(***************************************************************************)
(* Risk event detection of the LiveAI pipeline                             *)
(* (src/pathway_pipeline/events.py, src/pathway_pipeline/risk.py).         *)
(*                                                                         *)
(* Python floats are IEEE-754 binary64 values.  They are modelled exactly: *)
(* a finite non-zero float is sign * m * 2^e with a 53-bit significand m,  *)
(* and every arithmetic operation rounds to nearest, ties to even, as the  *)
(* hardware does.  Significands do not fit the 32-bit integers of TLC,     *)
(* so they are kept as little-endian sequences of 14-bit limbs.            *)
(* Exponent overflow and subnormals are outside the range of the values    *)
(* the model feeds and are not modelled.                                   *)
(***************************************************************************)
EXTENDS Integers, Sequences, FiniteSets, TLC

\* ------------------------------------------------------------------------
\* Natural numbers of arbitrary size: little-endian limbs, no high zero limb.
\* The arithmetic is written as functions, which take evaluated arguments.
\* ------------------------------------------------------------------------
LimbBits == 14
LimbBase == 2^LimbBits

Big == Seq(Nat)

MaxOf[x \in Int, y \in Int] == IF x >= y THEN x ELSE y
MinOf[x \in Int, y \in Int] == IF x <= y THEN x ELSE y
AbsInt[n \in Int] == IF n < 0 THEN -n ELSE n

BNorm[a \in Big] ==
    IF a = <<>> THEN a
    ELSE IF a[Len(a)] = 0 THEN BNorm[SubSeq(a, 1, Len(a) - 1)] ELSE a

BOfInt[n \in Nat] ==
    IF n = 0 THEN <<>> ELSE <<n % LimbBase>> \o BOfInt[n \div LimbBase]

BOne == <<1>>

Limb[a \in Big, i \in Nat] == IF i <= Len(a) THEN a[i] ELSE 0

CmpFrom[a \in Big, b \in Big, i \in Nat] ==
    IF i = 0 THEN 0
    ELSE IF a[i] # b[i] THEN (IF a[i] < b[i] THEN -1 ELSE 1)
    ELSE CmpFrom[a, b, i - 1]

\* -1, 0, 1 as a < b, a = b, a > b
BCmp[a \in Big, b \in Big] ==
    IF Len(a) # Len(b) THEN (IF Len(a) < Len(b) THEN -1 ELSE 1)
    ELSE CmpFrom[a, b, Len(a)]

AddRec[a \in Big, b \in Big, i \in Nat, c \in Nat] ==
    IF i > MaxOf[Len(a), Len(b)] THEN (IF c = 0 THEN <<>> ELSE <<c>>)
    ELSE <<(Limb[a, i] + Limb[b, i] + c) % LimbBase>>
         \o AddRec[a, b, i + 1, (Limb[a, i] + Limb[b, i] + c) \div LimbBase]

BAdd[a \in Big, b \in Big] == AddRec[a, b, 1, 0]

SubRec[a \in Big, b \in Big, i \in Nat, borrow \in Nat] ==
    IF i > Len(a) THEN <<>>
    ELSE IF a[i] - Limb[b, i] - borrow < 0
         THEN <<a[i] - Limb[b, i] - borrow + LimbBase>> \o SubRec[a, b, i + 1, 1]
         ELSE <<a[i] - Limb[b, i] - borrow>> \o SubRec[a, b, i + 1, 0]

\* a - b for a >= b
BSub[a \in Big, b \in Big] == BNorm[SubRec[a, b, 1, 0]]

MulRec[a \in Big, c \in Nat, i \in Nat, carry \in Nat] ==
    IF i > Len(a) THEN (IF carry = 0 THEN <<>> ELSE <<carry>>)
    ELSE <<(a[i] * c + carry) % LimbBase>>
         \o MulRec[a, c, i + 1, (a[i] * c + carry) \div LimbBase]

\* a * c for a small factor 0 <= c <= LimbBase
BMulSmall[a \in Big, c \in Nat] == IF c = 0 THEN <<>> ELSE MulRec[a, c, 1, 0]

BShlLimbs[a \in Big, k \in Nat] ==
    IF a = <<>> THEN a ELSE [i \in 1..k |-> 0] \o a

MulSum[a \in Big, b \in Big, j \in Nat] ==
    IF j > Len(b) THEN <<>>
    ELSE BAdd[BShlLimbs[BMulSmall[a, b[j]], j - 1], MulSum[a, b, j + 1]]

BMul[a \in Big, b \in Big] == MulSum[a, b, 1]

\* a * 2^k
BShl[a \in Big, k \in Nat] ==
    BShlLimbs[BMulSmall[a, 2^(k % LimbBits)], k \div LimbBits]

BDouble[a \in Big] == BMulSmall[a, 2]

BOdd[a \in Big] == a # <<>> /\ a[1] % 2 = 1

\* floor(a / 2)
BHalf[a \in Big] ==
    BNorm[[i \in 1..Len(a) |->
              (a[i] \div 2) + (Limb[a, i + 1] % 2) * (LimbBase \div 2)]]

IntBitLen[n \in Nat] == IF n = 0 THEN 0 ELSE 1 + IntBitLen[n \div 2]

BBitLen[a \in Big] ==
    IF a = <<>> THEN 0 ELSE LimbBits * (Len(a) - 1) + IntBitLen[a[Len(a)]]

BPow10[k \in Nat] == IF k = 0 THEN BOne ELSE BMulSmall[BPow10[k - 1], 10]

\* ------------------------------------------------------------------------
\* IEEE-754 binary64
\* ------------------------------------------------------------------------
MantBits == 53

Float == [k : {"fin", "nan", "zerodiv"}, neg : BOOLEAN, m : Big, e : Int]

FZero == [k |-> "fin", neg |-> FALSE, m |-> <<>>, e |-> 0]
FNaN == [k |-> "nan", neg |-> FALSE, m |-> <<>>, e |-> 0]

IsZero[x \in Float] == x.k = "fin" /\ x.m = <<>>
IsNaN(x) == x.k = "nan"

\* restoring division, k bit steps: <<q, R>> with q = floor(N * 2^(k-1) / D)
\* and R = 0 exactly when the division left no remainder.  The quotient is
\* produced one limb at a time, most significant limb first.
BitSteps[R \in Big, D \in Big, q \in Nat, k \in Nat] ==
    IF k = 0 THEN <<q, R>>
    ELSE IF BCmp[R, D] >= 0
         THEN BitSteps[BDouble[BSub[R, D]], D, 2 * q + 1, k - 1]
         ELSE BitSteps[BDouble[R], D, 2 * q, k - 1]

LimbSteps[k \in Nat] == IF k % LimbBits = 0 THEN LimbBits ELSE k % LimbBits

PutLimb[d \in Nat, rest \in Big \X Big] == <<rest[1] \o <<d>>, rest[2]>>

\* d: the limb just produced and the remainder; k: the bit steps still to do
DivChunks[d \in Nat \X Big, D \in Big, k \in Nat] ==
    IF k = 0 THEN <<<<d[1]>>, d[2]>>
    ELSE PutLimb[d[1], DivChunks[BitSteps[d[2], D, 0, LimbBits], D, k - LimbBits]]

NormQuotient[r \in Big \X Big] == <<BNorm[r[1]], r[2]>>

DivLoop[N \in Big, D \in Big, k \in Nat] ==
    NormQuotient[DivChunks[BitSteps[N, D, 0, LimbSteps[k]], D, k - LimbSteps[k]]]

Finite[neg \in BOOLEAN, m \in Big, e \in Int] == [k |-> "fin", neg |-> neg, m |-> m, e |-> e]

\* a 53- or 54-bit significand brought to 53 bits
Renorm[neg \in BOOLEAN, m \in Big, e \in Int] ==
    IF BBitLen[m] > MantBits THEN Finite[neg, BHalf[m], e + 1] ELSE Finite[neg, m, e]

\* q holds the significand and one more bit; ties go to the even significand
RoundEven[neg \in BOOLEAN, q \in Big, m \in Big, sticky \in BOOLEAN, e \in Int] ==
    Renorm[neg, IF BOdd[q] /\ (sticky \/ BOdd[m]) THEN BAdd[m, BOne] ELSE m, e]

RoundQuotient[neg \in BOOLEAN, qr \in Big \X Big, e \in Int] ==
    RoundEven[neg, qr[1], BHalf[qr[1]], qr[2] # <<>>, e]

DivSteps[N \in Big, D \in Big] == IF BCmp[N, D] >= 0 THEN MantBits + 1 ELSE MantBits + 2

\* N and D of the same bit length
RoundAligned[neg \in BOOLEAN, N \in Big, D \in Big, e \in Int] ==
    RoundQuotient[neg, DivLoop[N, D, DivSteps[N, D]], e - DivSteps[N, D] + 2]

AlignAndRound[neg \in BOOLEAN, N \in Big, D \in Big, e \in Int, ln \in Nat, ld \in Nat] ==
    RoundAligned[neg, BShl[N, MaxOf[ln, ld] - ln], BShl[D, MaxOf[ln, ld] - ld],
                 e + ln - ld]

\* the float nearest to (N / D) * 2^e, ties to even; N, D naturals, D > 0
RatioRound[neg \in BOOLEAN, N \in Big, D \in Big, e \in Int] ==
    IF N = <<>> THEN Finite[neg, <<>>, 0]
    ELSE AlignAndRound[neg, N, D, e, BBitLen[N], BBitLen[D]]

\* the float a decimal literal n * 10^k denotes
Dec[n \in Int, k \in Int] ==
    IF k >= 0
    THEN RatioRound[n < 0, BMul[BOfInt[AbsInt[n]], BPow10[k]], BOne, 0]
    ELSE RatioRound[n < 0, BOfInt[AbsInt[n]], BPow10[-k], 0]

FNeg[x \in Float] == IF x.k = "nan" THEN x ELSE [x EXCEPT !.neg = ~x.neg]
FAbs[x \in Float] == IF x.k = "nan" THEN x ELSE [x EXCEPT !.neg = FALSE]

\* compare magnitudes of finite floats: -1, 0, 1
MagCmp[x \in Float, y \in Float] ==
    IF x.m = <<>> THEN (IF y.m = <<>> THEN 0 ELSE -1)
    ELSE IF y.m = <<>> THEN 1
    ELSE IF x.e # y.e THEN (IF x.e < y.e THEN -1 ELSE 1)
    ELSE BCmp[x.m, y.m]

\* compare floats by value (-0.0 = 0.0): -1, 0, 1; 2 when one is no number
FCmp[x \in Float, y \in Float] ==
    IF x.k # "fin" \/ y.k # "fin" THEN 2
    ELSE IF IsZero[x] /\ IsZero[y] THEN 0
    ELSE IF x.neg # y.neg THEN (IF x.neg THEN -1 ELSE 1)
    ELSE IF x.neg THEN MagCmp[y, x] ELSE MagCmp[x, y]

AddMagnitudes[xneg \in BOOLEAN, A \in Big, yneg \in BOOLEAN, B \in Big, e \in Int] ==
    IF xneg = yneg THEN RatioRound[xneg, BAdd[A, B], BOne, e]
    ELSE IF BCmp[A, B] = 0 THEN FZero
    ELSE IF BCmp[A, B] > 0 THEN RatioRound[xneg, BSub[A, B], BOne, e]
    ELSE RatioRound[yneg, BSub[B, A], BOne, e]

FAdd[x \in Float, y \in Float] ==
    IF x.k # "fin" \/ y.k # "fin" THEN FNaN
    ELSE IF IsZero[x] THEN (IF IsZero[y] THEN [y EXCEPT !.neg = x.neg /\ y.neg] ELSE y)
    ELSE IF IsZero[y] THEN x
    ELSE AddMagnitudes[x.neg, BShl[x.m, x.e - MinOf[x.e, y.e]],
                       y.neg, BShl[y.m, y.e - MinOf[x.e, y.e]], MinOf[x.e, y.e]]

FMul[x \in Float, y \in Float] ==
    IF x.k # "fin" \/ y.k # "fin" THEN FNaN
    ELSE RatioRound[x.neg # y.neg, BMul[x.m, y.m], BOne, x.e + y.e]

\* Python raises ZeroDivisionError on a zero divisor: the callers guard it,
\* and the model marks the result so that a missing guard shows
FDiv[x \in Float, y \in Float] ==
    IF x.k # "fin" \/ y.k # "fin" THEN FNaN
    ELSE IF IsZero[y] THEN [k |-> "zerodiv", neg |-> FALSE, m |-> <<>>, e |-> 0]
    ELSE RatioRound[x.neg # y.neg, x.m, y.m, x.e - y.e]

\* abs(x), -x, x + y, x - y, x * y, x / y
fabs(x) == FAbs[x]
fneg(x) == FNeg[x]
fadd(x, y) == FAdd[x, y]
fsub(x, y) == FAdd[x, FNeg[y]]
fmul(x, y) == FMul[x, y]
fdiv(x, y) == FDiv[x, y]

\* x < y, x <= y, x > y, x >= y, x == y: false when an operand is NaN
flt(x, y) == FCmp[x, y] = -1
fle(x, y) == FCmp[x, y] \in {-1, 0}
fgt(x, y) == FCmp[x, y] = 1
fge(x, y) == FCmp[x, y] \in {0, 1}
feq(x, y) == FCmp[x, y] = 0

\* ------------------------------------------------------------------------
\* Configuration (src/config/settings.py)
\* ------------------------------------------------------------------------
\* RiskThresholds(): the dataclass defaults
DefaultThresholds ==
    [delta_change_threshold |-> Dec[5, -2],
     gamma_change_threshold |-> Dec[10, -2],
     theta_change_threshold |-> Dec[5, -2],
     vega_change_threshold |-> Dec[10, -2],
     stable_max |-> Dec[300, -1],
     sensitive_max |-> Dec[650, -1]]

\* RiskThresholds(stable_max=20.0, sensitive_max=80.0): the dataclass takes
\* any cutoffs
WideThresholds ==
    [DefaultThresholds EXCEPT !.stable_max = Dec[200, -1],
                              !.sensitive_max = Dec[800, -1]]

Configs == {DefaultThresholds, WideThresholds}

\* ------------------------------------------------------------------------
\* Risk regime (src/pathway_pipeline/risk.py)
\* ------------------------------------------------------------------------
Regimes == {"STABLE", "SENSITIVE", "FRAGILE"}

determine_risk_regime_lt(risk_score, thresholds) ==
    IF flt(risk_score, thresholds.stable_max) THEN "STABLE"
    ELSE IF flt(risk_score, thresholds.sensitive_max) THEN "SENSITIVE"
    ELSE "FRAGILE"

determine_risk_regime(risk_score, thresholds) ==
    IF fle(risk_score, thresholds.stable_max) THEN "STABLE"
    ELSE IF fle(risk_score, thresholds.sensitive_max) THEN "SENSITIVE"
    ELSE "FRAGILE"

\* ------------------------------------------------------------------------
\* Risk snapshots: the metrics dictionaries fed to the detector
\* ------------------------------------------------------------------------
None == [none |-> TRUE]

Snap[ts \in STRING, id \in STRING, d \in Float, g \in Float, t \in Float, v \in Float, r \in STRING] ==
    [timestamp |-> ts, instrument_id |-> id,
     delta |-> d, gamma |-> g, theta |-> t, vega |-> v, risk_regime |-> r]

D040 == Dec[40, -2]
D042 == Dec[42, -2]
G001 == Dec[1, -3]
T050 == Dec[-5, -1]
V200 == Dec[20, -1]

SBase == Snap["T1", "GC", D040, G001, T050, V200, "STABLE"]
\* delta +5% exactly, as decimals
SEdge == Snap["T2", "GC", D042, G001, T050, V200, "STABLE"]
\* delta +15%, gamma +20%, regime two ranks up; theta and vega unchanged
STrip == Snap["T3", "GC", Dec[46, -2], Dec[12, -4], T050, V200, "FRAGILE"]
\* every Greek at zero: the near-zero branch of the comparisons
SZero == Snap["T5", "GC", FZero, FZero, FZero, FZero, "STABLE"]
\* delta +7.5%, gamma +10%, theta +5%, vega +10%, as decimals
SStep == Snap["T7", "GC", Dec[43, -2], Dec[11, -4], Dec[-525, -3], Dec[22, -1], "SENSITIVE"]
\* a put-like snapshot: delta changes sign
SPut == Snap["T8", "GC", Dec[-40, -2], G001, T050, V200, "FRAGILE"]
\* a second instrument in the same stream
SOther == Snap["T1", "SI", Dec[80, -2], Dec[4, -3], Dec[-20, -1], Dec[80, -1], "FRAGILE"]

Snapshots == {SBase, SEdge, STrip, SStep, SZero, SPut, SOther}

\* long runs: HistA -> HistB trips all five checks, HistB -> HistA four
\* (vega 2.2 -> 2.0 is a change of 9.09%)
HistA == SBase
HistB == Snap["T9", "GC", Dec[60, -2], Dec[15, -4], Dec[-75, -2], Dec[22, -1], "FRAGILE"]
HistSnapshots == {HistA, HistB}

Instruments == {s.instrument_id : s \in Snapshots \cup HistSnapshots}

\* ------------------------------------------------------------------------
\* RiskEventDetector (src/pathway_pipeline/events.py)
\* ------------------------------------------------------------------------
max_history_size == 100

Tiny == Dec[1, -10]
Hundred == Dec[100, 0]
Three == Dec[3, 0]
OneAndHalf == Dec[15, -1]

\* the near-zero branch compares with >=
_significant_change_inclusive_cutoff(old_value, new_value, threshold) ==
    IF flt(fabs(old_value), Tiny) THEN fge(fabs(new_value), threshold)
    ELSE LET change_pct == fabs(fdiv(fsub(new_value, old_value), old_value))
         IN  fge(change_pct, threshold)

\* the comparison written as "not below the threshold"
_significant_change_not_below(old_value, new_value, threshold) ==
    IF flt(fabs(old_value), Tiny) THEN fgt(fabs(new_value), threshold)
    ELSE LET change_pct == fabs(fdiv(fsub(new_value, old_value), old_value))
         IN  ~flt(change_pct, threshold)

_significant_change(old_value, new_value, threshold) ==
    IF flt(fabs(old_value), Tiny) THEN fgt(fabs(new_value), threshold)
    ELSE LET change_pct == fabs(fdiv(fsub(new_value, old_value), old_value))
         IN  fge(change_pct, threshold)

\* the percentage reported without its sign
_calc_change_pct_unsigned(old_value, new_value) ==
    IF flt(fabs(old_value), Tiny)
    THEN (IF flt(fabs(new_value), Tiny) THEN FZero ELSE Hundred)
    ELSE fabs(fmul(fdiv(fsub(new_value, old_value), old_value), Hundred))

_calc_change_pct(old_value, new_value) ==
    IF flt(fabs(old_value), Tiny)
    THEN (IF flt(fabs(new_value), Tiny) THEN FZero ELSE Hundred)
    ELSE fmul(fdiv(fsub(new_value, old_value), old_value), Hundred)

\* a near-zero old value is tiered by |new| against the threshold
_classify_severity_tiers_near_zero(old_value, new_value, threshold) ==
    LET change_pct == IF flt(fabs(old_value), Tiny) THEN fabs(new_value)
                      ELSE fabs(fdiv(fsub(new_value, old_value), old_value))
    IN  IF fge(change_pct, fmul(threshold, Three)) THEN "HIGH"
        ELSE IF fge(change_pct, fmul(threshold, OneAndHalf)) THEN "MEDIUM"
        ELSE "LOW"

\* the tiers tested in the wrong order
_classify_severity_medium_first(old_value, new_value, threshold) ==
    IF flt(fabs(old_value), Tiny) THEN "MEDIUM"
    ELSE LET change_pct == fabs(fdiv(fsub(new_value, old_value), old_value))
         IN  IF fge(change_pct, fmul(threshold, OneAndHalf)) THEN "MEDIUM"
             ELSE IF fge(change_pct, fmul(threshold, Three)) THEN "HIGH"
             ELSE "LOW"

_classify_severity(old_value, new_value, threshold) ==
    IF flt(fabs(old_value), Tiny) THEN "MEDIUM"
    ELSE LET change_pct == fabs(fdiv(fsub(new_value, old_value), old_value))
         IN  IF fge(change_pct, fmul(threshold, Three)) THEN "HIGH"
             ELSE IF fge(change_pct, fmul(threshold, OneAndHalf)) THEN "MEDIUM"
             ELSE "LOW"

regime_order(regime) ==
    CASE regime = "STABLE" -> 0
      [] regime = "SENSITIVE" -> 1
      [] regime = "FRAGILE" -> 2
      [] OTHER -> 1

\* the rank difference taken without abs()
_regime_change_severity_signed(old_regime, new_regime) ==
    LET diff == regime_order(new_regime) - regime_order(old_regime)
    IN  IF diff >= 2 THEN "HIGH" ELSE IF diff = 1 THEN "MEDIUM" ELSE "LOW"

_regime_change_severity(old_regime, new_regime) ==
    LET diff == AbsInt[regime_order(new_regime) - regime_order(old_regime)]
    IN  IF diff >= 2 THEN "HIGH" ELSE IF diff = 1 THEN "MEDIUM" ELSE "LOW"

GreekFields == <<"delta", "gamma", "theta", "vega">>

EventTypeOf(f) ==
    CASE f = "delta" -> "DELTA_CHANGE"
      [] f = "gamma" -> "GAMMA_CHANGE"
      [] f = "theta" -> "THETA_CHANGE"
      [] f = "vega" -> "VEGA_CHANGE"

ThresholdOf(thresholds, f) ==
    CASE f = "delta" -> thresholds.delta_change_threshold
      [] f = "gamma" -> thresholds.gamma_change_threshold
      [] f = "theta" -> thresholds.theta_change_threshold
      [] f = "vega" -> thresholds.vega_change_threshold

\* lines 67-121: one block per Greek
GreekEvents(f, previous, current, thresholds) ==
    IF _significant_change(previous[f], current[f], ThresholdOf(thresholds, f))
    THEN <<[timestamp |-> current.timestamp,
            event_type |-> EventTypeOf(f),
            severity |-> _classify_severity(previous[f], current[f],
                                            ThresholdOf(thresholds, f)),
            old_value |-> previous[f],
            new_value |-> current[f],
            change_pct |-> _calc_change_pct(previous[f], current[f])]>>
    ELSE <<>>

\* lines 123-135
RegimeEvents(previous, current) ==
    IF previous.risk_regime # current.risk_regime
    THEN <<[timestamp |-> current.timestamp,
            event_type |-> "REGIME_CHANGE",
            severity |-> _regime_change_severity(previous.risk_regime,
                                                 current.risk_regime),
            old_value |-> FZero,
            new_value |-> FZero,
            change_pct |-> FZero]>>
    ELSE <<>>

\* the regime checked before the Greeks
CollectEvents_regime_first(previous, current, thresholds) ==
    RegimeEvents(previous, current)
    \o GreekEvents("delta", previous, current, thresholds)
    \o GreekEvents("gamma", previous, current, thresholds)
    \o GreekEvents("theta", previous, current, thresholds)
    \o GreekEvents("vega", previous, current, thresholds)

\* the events list a warm call builds, lines 67-135
CollectEvents(previous, current, thresholds) ==
    GreekEvents("delta", previous, current, thresholds)
    \o GreekEvents("gamma", previous, current, thresholds)
    \o GreekEvents("theta", previous, current, thresholds)
    \o GreekEvents("vega", previous, current, thresholds)
    \o RegimeEvents(previous, current)

\* event_history[-(max_history_size + 1):]
TrimHistory_one_more(h) ==
    IF Len(h) > max_history_size
    THEN SubSeq(h, Len(h) - max_history_size, Len(h))
    ELSE h

\* event_history[:max_history_size]
TrimHistory_keeps_oldest(h) ==
    IF Len(h) > max_history_size THEN SubSeq(h, 1, max_history_size) ELSE h

\* lines 144-145: event_history[-max_history_size:]
TrimHistory(h) ==
    IF Len(h) > max_history_size
    THEN SubSeq(h, Len(h) - max_history_size + 1, Len(h))
    ELSE h

\* ------------------------------------------------------------------------
\* State
\* ------------------------------------------------------------------------
VARIABLES
    risk_thresholds,    \* config.risk_thresholds
    previous_metrics,   \* risk_event_detector.previous_metrics (None when cold)
    event_history,      \* risk_event_detector.event_history
    op,                 \* the operation that ran last
    arg,                \* its argument
    returned,           \* its return value
    old_metrics,        \* history: previous_metrics as the last detect_events read it
    emitted,            \* history: the events returned since creation / clear_history
    fed_before,         \* history: the snapshot fed by the call before the last one
    last_fed,           \* history: the snapshot fed by the last call
    last_of,            \* history: the last snapshot fed, per instrument
    same_prev,          \* history: last_of[arg.instrument_id] before the last call
    calls,              \* number of snapshots the stream has delivered
    in_flight,          \* detect_events calls in progress, per calling thread
    overlapped,         \* history: two detect_events calls were in progress at once
    provider,           \* producer_manager.provider
    producer,           \* producer_manager.producer
    is_running,         \* producer_manager.is_running
    publish_thread,     \* producer_manager.publish_thread: 0 for None, else the worker
    workers,            \* the _stream_worker threads started so far
    published,          \* history: the worker behind each event sent to Kafka
    call_log            \* history: the calls made by the last manager method

vars == <<risk_thresholds, previous_metrics, event_history, op, arg, returned,
          old_metrics, emitted, fed_before, last_fed, last_of, same_prev, calls,
          in_flight, overlapped,
          provider, producer, is_running, publish_thread, workers, published,
          call_log>>

thread_vars == <<in_flight, overlapped>>

manager_vars == <<provider, producer, is_running, publish_thread, workers,
                  published, call_log>>

history_vars == <<old_metrics, emitted, fed_before, last_fed, last_of, same_prev>>

MaxCalls == 3
MaxEmitted == 120
MaxWorkers == 2
MaxPublished == 2

Threads == {1, 2}

Idle == [pc |-> "idle", current_metrics |-> None, prev |-> None, events |-> <<>>]

\* no detect_events call in progress
InitThreads ==
    /\ in_flight = [thread \in Threads |-> Idle]
    /\ overlapped = FALSE

\* ProducerManager.__init__
InitManager ==
    /\ provider = None
    /\ producer = None
    /\ is_running = FALSE
    /\ publish_thread = 0
    /\ workers = [w \in 1..MaxWorkers |-> "unborn"]
    /\ published = <<>>
    /\ call_log = <<>>

\* RiskEventDetector.__init__
InitDetector ==
    /\ previous_metrics = None
    /\ event_history = <<>>
    /\ op = "__init__"
    /\ arg = None
    /\ returned = <<>>
    /\ old_metrics = None
    /\ emitted = <<>>
    /\ fed_before = None
    /\ last_fed = None
    /\ last_of = [i \in Instruments |-> None]
    /\ same_prev = None
    /\ calls = 0

Init ==
    /\ risk_thresholds = DefaultThresholds
    /\ InitDetector
    /\ InitThreads
    /\ InitManager

\* what a detect_events call leaves in the history variables
Observe(current_metrics) ==
    /\ op' = "detect_events"
    /\ arg' = current_metrics
    /\ old_metrics' = previous_metrics
    /\ emitted' = emitted \o returned'
    /\ fed_before' = last_fed
    /\ last_fed' = current_metrics
    /\ same_prev' = last_of[current_metrics.instrument_id]
    /\ last_of' = [last_of EXCEPT ![current_metrics.instrument_id] = current_metrics]
    /\ UNCHANGED <<risk_thresholds, thread_vars, manager_vars>>

\* the cold call returns without storing the snapshot
detect_events_stays_cold(current_metrics) ==
    /\ IF previous_metrics = None
       THEN /\ returned' = <<>>
            /\ UNCHANGED <<previous_metrics, event_history>>
       ELSE /\ returned' = CollectEvents(previous_metrics, current_metrics,
                                         risk_thresholds)
            /\ previous_metrics' = current_metrics
            /\ event_history' = TrimHistory(event_history \o returned')
    /\ Observe(current_metrics)

\* the previous snapshot is replaced only when an event fired
detect_events_keeps_previous(current_metrics) ==
    /\ IF previous_metrics = None
       THEN /\ previous_metrics' = current_metrics
            /\ returned' = <<>>
            /\ UNCHANGED event_history
       ELSE /\ returned' = CollectEvents(previous_metrics, current_metrics,
                                         risk_thresholds)
            /\ previous_metrics' =
                   IF returned' = <<>> THEN previous_metrics ELSE current_metrics
            /\ event_history' = TrimHistory(event_history \o returned')
    /\ Observe(current_metrics)

\* RiskEventDetector.detect_events(current_metrics), as the pipeline's
\* detect_and_explain_events calls it on the global detector
detect_events(current_metrics) ==
    /\ IF previous_metrics = None
       THEN /\ previous_metrics' = current_metrics
            /\ returned' = <<>>
            /\ UNCHANGED event_history
       ELSE /\ returned' = CollectEvents(previous_metrics, current_metrics,
                                         risk_thresholds)
            /\ previous_metrics' = current_metrics
            /\ event_history' = TrimHistory(event_history \o returned')
    /\ Observe(current_metrics)

\* the previous snapshot is dropped with the history
clear_history_forgets_previous ==
    /\ event_history' = <<>>
    /\ previous_metrics' = None
    /\ op' = "clear_history"
    /\ arg' = None
    /\ returned' = <<>>
    /\ emitted' = <<>>
    /\ UNCHANGED <<risk_thresholds, old_metrics, fed_before,
                   last_fed, last_of, same_prev, calls, thread_vars, manager_vars>>

\* RiskEventDetector.clear_history()
clear_history ==
    /\ event_history' = <<>>
    /\ op' = "clear_history"
    /\ arg' = None
    /\ returned' = <<>>
    /\ emitted' = <<>>
    /\ UNCHANGED <<risk_thresholds, previous_metrics, old_metrics, fed_before,
                   last_fed, last_of, same_prev, calls, thread_vars, manager_vars>>

\* the stream delivers one more risk snapshot, of any instrument
Feed ==
    /\ calls < MaxCalls
    /\ \E s \in Snapshots : detect_events(s)
    /\ calls' = calls + 1

Next == Feed \/ clear_history

Spec == Init /\ [][Next]_vars

\* A long-running stream of one instrument, until MaxEmitted events have been
\* returned since the history was last cleared
FeedHistory ==
    /\ Len(emitted) < MaxEmitted
    /\ \E s \in HistSnapshots : detect_events(s)
    /\ UNCHANGED calls

NextHistory == FeedHistory \/ clear_history

SpecHistory == Init /\ [][NextHistory]_vars

\* determine_risk_regime applied to scores on both sides of the cutoffs,
\* under either configuration
ScoreTenths ==
    {25 * i : i \in 0..40} \cup {199, 201, 299, 301, 649, 651, 799, 801}

Scores == {Dec[n, -1] : n \in ScoreTenths} \cup {FNaN}

InitRegime ==
    /\ risk_thresholds \in Configs
    /\ InitDetector
    /\ InitThreads
    /\ InitManager

ClassifyScore ==
    \E risk_score \in Scores :
        /\ op' = "determine_risk_regime"
        /\ arg' = risk_score
        /\ returned' = determine_risk_regime(risk_score, risk_thresholds)
        /\ UNCHANGED <<risk_thresholds, previous_metrics, event_history,
                       history_vars, calls, thread_vars, manager_vars>>

NextRegime == ClassifyScore

SpecRegime == InitRegime /\ [][NextRegime]_vars

\* ------------------------------------------------------------------------
\* Properties
\* ------------------------------------------------------------------------
ColdCall == op = "detect_events" /\ old_metrics = None
WarmCall == op = "detect_events" /\ old_metrics # None

Severities == {"LOW", "MEDIUM", "HIGH"}

CanonicalOrder ==
    <<"DELTA_CHANGE", "GAMMA_CHANGE", "THETA_CHANGE", "VEGA_CHANGE", "REGIME_CHANGE">>

PlaceOf(event_type) == CHOOSE i \in 1..Len(CanonicalOrder) : CanonicalOrder[i] = event_type

EventTypes(events) == [i \in 1..Len(events) |-> events[i].event_type]

HasEvent(events, event_type) ==
    \E i \in 1..Len(events) : events[i].event_type = event_type

EventsOf(events, event_type) ==
    {events[i] : i \in {j \in 1..Len(events) : events[j].event_type = event_type}}

\* |(new - old) / old| in the arithmetic of the code
RelChange(old_value, new_value) ==
    fabs(fdiv(fsub(new_value, old_value), old_value))

RegimeRank(regime) ==
    CASE regime = "STABLE" -> 0 [] regime = "SENSITIVE" -> 1 [] regime = "FRAGILE" -> 2

\* h[-n:] for 0 < n <= Len(h), and <<>> for n = 0
LastN(h, n) == SubSeq(h, Len(h) - n + 1, Len(h))

\* C1: the first detect_events call on a fresh detector returns no event
\* whatever the snapshot holds, appends nothing to the history and stores the
\* snapshot as the previous one; the detector is warm from then on, so the
\* first call is the only cold one.
C1_ColdStart ==
    /\ (ColdCall => /\ returned = <<>>
                    /\ event_history = <<>>
                    /\ previous_metrics = arg
                    /\ calls = 1)
    /\ (calls >= 1 => previous_metrics # None)
    /\ ((op = "detect_events" /\ calls >= 2) => old_metrics # None)

C1_Witness ==
    /\ ColdCall
    /\ arg = STrip
    /\ previous_metrics = STrip
    /\ returned = <<>>

\* C2, as the code's arithmetic decides it: on a warm call and for each Greek
\* with |old| >= 1e-10, the field's event is in the returned list exactly when
\* |(new - old) / old| >= the field's threshold.
C2_ThresholdDecision ==
    WarmCall =>
        \A i \in 1..Len(GreekFields) :
            fge(fabs(old_metrics[GreekFields[i]]), Tiny) =>
                (HasEvent(returned, EventTypeOf(GreekFields[i]))
                 <=> fge(RelChange(old_metrics[GreekFields[i]], arg[GreekFields[i]]),
                         ThresholdOf(risk_thresholds, GreekFields[i])))

\* C2, the boundary case the claim names: old delta 0.40, new delta 0.42 and
\* threshold 0.05 is a change of exactly the threshold and emits DELTA_CHANGE.
C2_ThresholdEdge ==
    (/\ WarmCall
     /\ old_metrics.delta = Dec[40, -2]
     /\ arg.delta = Dec[42, -2]
     /\ risk_thresholds.delta_change_threshold = Dec[5, -2])
    => HasEvent(returned, "DELTA_CHANGE")

\* C2: each Greek's event is emitted if and only if its relative change is at
\* least the field's threshold, each field decided on its own, and the
\* boundary is inclusive: 0.40 -> 0.42 under the threshold 0.05 emits the event.
C2_InclusiveThreshold == C2_ThresholdDecision /\ C2_ThresholdEdge

\* C3: the list one detect_events call returns holds at most one event of each
\* type, in the order DELTA, GAMMA, THETA, VEGA, REGIME: the places of its
\* event types in that order increase strictly along the list.
C3_CanonicalOrder ==
    op = "detect_events" =>
        \A i, j \in 1..Len(returned) :
            i < j => PlaceOf(returned[i].event_type) < PlaceOf(returned[j].event_type)

C3_Witness ==
    /\ op = "detect_events"
    /\ EventTypes(returned) = <<"DELTA_CHANGE", "GAMMA_CHANGE", "REGIME_CHANGE">>

\* the tier of a relative change: >= 3 x threshold, >= 1.5 x threshold, below
TierOf(change, threshold) ==
    IF fge(change, fmul(threshold, Three)) THEN "HIGH"
    ELSE IF fge(change, fmul(threshold, OneAndHalf)) THEN "MEDIUM"
    ELSE "LOW"

\* C4, as stated: the severity of every emitted Greek event is the tier of
\* its relative change |(new - old) / old|: HIGH exactly when that is
\* >= 3 x threshold, MEDIUM exactly when it is >= 1.5 x threshold and below
\* 3 x threshold, LOW exactly when it is below 1.5 x threshold.
C4_TiersForEveryEvent ==
    op = "detect_events" =>
        \A i \in 1..Len(GreekFields) :
            \A ev \in EventsOf(returned, EventTypeOf(GreekFields[i])) :
                /\ ev.severity = "HIGH"
                   <=> fge(RelChange(old_metrics[GreekFields[i]], arg[GreekFields[i]]),
                           fmul(ThresholdOf(risk_thresholds, GreekFields[i]), Three))
                /\ ev.severity = "MEDIUM"
                   <=> /\ fge(RelChange(old_metrics[GreekFields[i]], arg[GreekFields[i]]),
                              fmul(ThresholdOf(risk_thresholds, GreekFields[i]),
                                   OneAndHalf))
                       /\ flt(RelChange(old_metrics[GreekFields[i]], arg[GreekFields[i]]),
                              fmul(ThresholdOf(risk_thresholds, GreekFields[i]), Three))
                /\ ev.severity = "LOW"
                   <=> flt(RelChange(old_metrics[GreekFields[i]], arg[GreekFields[i]]),
                           fmul(ThresholdOf(risk_thresholds, GreekFields[i]), OneAndHalf))

\* C4, amended: every emitted event has a severity among LOW, MEDIUM, HIGH;
\* the severity of a Greek's event whose old value has |old| >= 1e-10 is the
\* tier of the relative change that triggered it (HIGH when >= 3 x threshold,
\* MEDIUM when >= 1.5 x threshold and below 3 x threshold, LOW otherwise,
\* relative change and products as binary64 arithmetic yields them), and the
\* severity of a Greek's event with |old| < 1e-10 is MEDIUM.
C4_SeverityTiers ==
    op = "detect_events" =>
        /\ \A i \in 1..Len(returned) : returned[i].severity \in Severities
        /\ \A i \in 1..Len(GreekFields) :
               \A ev \in EventsOf(returned, EventTypeOf(GreekFields[i])) :
                   ev.severity =
                       IF fge(fabs(old_metrics[GreekFields[i]]), Tiny)
                       THEN TierOf(RelChange(old_metrics[GreekFields[i]],
                                             arg[GreekFields[i]]),
                                   ThresholdOf(risk_thresholds, GreekFields[i]))
                       ELSE "MEDIUM"

C4_Witness ==
    /\ WarmCall
    /\ old_metrics = STrip
    /\ \E ev \in EventsOf(returned, "DELTA_CHANGE") : ev.severity = "HIGH"
    /\ \E ev \in EventsOf(returned, "GAMMA_CHANGE") : ev.severity = "MEDIUM"

\* C5: on a warm call a REGIME_CHANGE event is returned exactly when the
\* regimes of the previous and the new snapshot differ; it carries zero
\* old_value, new_value and change_pct, severity HIGH for a rank difference of
\* 2 and MEDIUM for a rank difference of 1, and never severity LOW.
C5_RegimeChange ==
    WarmCall =>
        /\ HasEvent(returned, "REGIME_CHANGE")
           <=> old_metrics.risk_regime # arg.risk_regime
        /\ \A ev \in EventsOf(returned, "REGIME_CHANGE") :
               /\ ev.old_value = FZero
               /\ ev.new_value = FZero
               /\ ev.change_pct = FZero
               /\ ev.severity # "LOW"
               /\ ev.severity =
                      IF AbsInt[RegimeRank(arg.risk_regime)
                                - RegimeRank(old_metrics.risk_regime)] = 2
                      THEN "HIGH" ELSE "MEDIUM"

C5_Witness ==
    /\ WarmCall
    /\ old_metrics.risk_regime = "FRAGILE"
    /\ arg.risk_regime = "STABLE"
    /\ \E ev \in EventsOf(returned, "REGIME_CHANGE") : ev.severity = "HIGH"

\* C6: after any sequence of detect_events and clear_history calls the event
\* history holds at most max_history_size = 100 events.
C6_HistoryBounded == Len(event_history) <= max_history_size

\* a call returned five events when the history already held 100
C6_Witness ==
    /\ op = "detect_events"
    /\ Len(returned) = 5
    /\ Len(emitted) - Len(returned) >= max_history_size
    /\ Len(event_history) = max_history_size

\* C7: the event history is the most recent min(100, n) of the n events
\* returned since the detector was created or last cleared, in the order they
\* were returned.
C7_HistoryIsMostRecent ==
    event_history = LastN(emitted, MinOf[max_history_size, Len(emitted)])

\* more than 100 events were returned and the oldest have been evicted
C7_Witness ==
    /\ op = "detect_events"
    /\ Len(emitted) > max_history_size
    /\ event_history # SubSeq(emitted, 1, max_history_size)
    /\ event_history[max_history_size] = emitted[Len(emitted)]

\* C8: after every detect_events(s) call the previous snapshot is s, whether
\* or not an event fired, and stays s until the next call; so each call
\* compares its snapshot with the one fed by the call just before it.
C8_PreviousIsLastFed ==
    /\ last_fed # None => previous_metrics = last_fed
    /\ op = "detect_events" => (arg = last_fed /\ old_metrics = fed_before)

\* the third snapshot fed, one that fires no event, becomes the previous one
C8_Witness ==
    /\ op = "detect_events"
    /\ calls = 3
    /\ old_metrics = SBase
    /\ arg = SEdge
    /\ returned = <<>>
    /\ previous_metrics = SEdge

\* C9: the events returned for a snapshot of an instrument are those of
\* comparing it with the previous snapshot of the same instrument, and none
\* when it is the first snapshot of that instrument; snapshots of other
\* instruments in between change nothing.
C9_PerInstrumentState ==
    op = "detect_events" =>
        returned = IF same_prev = None THEN <<>>
                   ELSE CollectEvents(same_prev, arg, risk_thresholds)

\* C10: determine_risk_regime gives STABLE exactly for scores <= stable_max,
\* SENSITIVE exactly for scores above stable_max and <= sensitive_max, and
\* FRAGILE for every other score; a score equal to a cutoff falls in the
\* lower regime.  Scores and cutoffs are compared as the tenths they denote.
TenthsOf(score) == CHOOSE n \in ScoreTenths : Dec[n, -1] = score

C10_RegimeByCutoffs ==
    op = "determine_risk_regime" =>
        /\ returned \in Regimes
        /\ returned =
               IF IsNaN(arg) THEN "FRAGILE"
               ELSE IF TenthsOf(arg) <= TenthsOf(risk_thresholds.stable_max)
                    THEN "STABLE"
                    ELSE IF TenthsOf(arg) <= TenthsOf(risk_thresholds.sensitive_max)
                         THEN "SENSITIVE"
                         ELSE "FRAGILE"

C10_Witness ==
    /\ op = "determine_risk_regime"
    /\ risk_thresholds = DefaultThresholds
    /\ arg = Dec[650, -1]
    /\ returned = "SENSITIVE"

\* ------------------------------------------------------------------------
\* Risk health score (src/pathway_pipeline/risk.py)
\* ------------------------------------------------------------------------
w_delta == Dec[25, -2]
w_gamma == Dec[35, -2]
w_theta == Dec[20, -2]
w_vega == Dec[20, -2]

Thousand == Dec[1000, 0]
Ten == Dec[10, 0]
Five == Dec[5, 0]

\* Python's min(p, q): q when q < p, else p
py_min(p, q) == IF flt(q, p) THEN q ELSE p

\* np.clip(v, lo, hi) = minimum(maximum(v, lo), hi); a NaN stays a NaN
np_clip(v, lo, hi) ==
    IF IsNaN(v) THEN v
    ELSE IF flt(v, lo) THEN lo
    ELSE IF fgt(v, hi) THEN hi
    ELSE v

\* the Greeks are used with their sign
compute_risk_score_signed(greeks) ==
    np_clip(fadd(fadd(fadd(fmul(w_delta, py_min(fmul(greeks.delta, Hundred), Hundred)),
                           fmul(w_gamma, py_min(fmul(greeks.gamma, Thousand), Hundred))),
                      fmul(w_theta, py_min(fmul(greeks.theta, Ten), Hundred))),
                 fmul(w_vega, py_min(fmul(greeks.vega, Five), Hundred))),
            FZero, Hundred)

\* the components are not capped and the sum is not clamped
compute_risk_score_unclamped(greeks) ==
    fadd(fadd(fadd(fmul(w_delta, fmul(fabs(greeks.delta), Hundred)),
                   fmul(w_gamma, fmul(fabs(greeks.gamma), Thousand))),
              fmul(w_theta, fmul(fabs(greeks.theta), Ten))),
         fmul(w_vega, fmul(fabs(greeks.vega), Five)))

compute_risk_score(greeks) ==
    LET delta == fabs(greeks.delta)
        gamma == fabs(greeks.gamma)
        theta == fabs(greeks.theta)
        vega == fabs(greeks.vega)
        delta_score == py_min(fmul(delta, Hundred), Hundred)
        gamma_score == py_min(fmul(gamma, Thousand), Hundred)
        theta_score == py_min(fmul(theta, Ten), Hundred)
        vega_score == py_min(fmul(vega, Five), Hundred)
        risk_score == fadd(fadd(fadd(fmul(w_delta, delta_score),
                                     fmul(w_gamma, gamma_score)),
                                fmul(w_theta, theta_score)),
                           fmul(w_vega, vega_score))
    IN np_clip(risk_score, FZero, Hundred)

\* Greeks vectors: delta in 1e-4, gamma in 1e-5, theta and vega in 1e-3; both
\* signs, magnitudes below, at and above the point where a component is
\* capped (|delta| = 1, |gamma| = 0.1, |theta| = 10, |vega| = 20)
DeltaUnits == {-4000, 0, 5200, 10000, 25000}
GammaUnits == {-25000, -120, 0, 100, 5000, 10000, 10001}
ThetaUnits == {-12000, -500}
VegaUnits == {2000, 30000}

GreeksOf[nd \in Int, ng \in Int, nt \in Int, nv \in Int] ==
    [delta |-> Dec[nd, -4], gamma |-> Dec[ng, -5], theta |-> Dec[nt, -3], vega |-> Dec[nv, -3]]

GreekVectors ==
    {GreeksOf[nd, ng, nt, nv] :
        nd \in DeltaUnits, ng \in GammaUnits, nt \in ThetaUnits, nv \in VegaUnits}

\* compute_risk_score(greeks) on a Greeks vector
ScoreGreeks ==
    /\ op = "__init__"
    /\ \E greeks \in GreekVectors :
           /\ op' = "compute_risk_score"
           /\ arg' = greeks
           /\ returned' = compute_risk_score(greeks)
    /\ UNCHANGED <<risk_thresholds, previous_metrics, event_history,
                   history_vars, calls, thread_vars, manager_vars>>

\* compute_risk_score again after |gamma| moved up, the other Greeks held:
\* arg and returned keep both vectors and both scores, lower |gamma| first
RaiseGamma ==
    /\ op = "compute_risk_score"
    /\ \E gamma \in {Dec[ng, -5] : ng \in GammaUnits} :
           /\ fge(fabs(gamma), fabs(arg.gamma))
           /\ op' = "compute_risk_score_pair"
           /\ arg' = <<arg, [arg EXCEPT !.gamma = gamma]>>
           /\ returned' = <<returned, compute_risk_score(arg'[2])>>
    /\ UNCHANGED <<risk_thresholds, previous_metrics, event_history,
                   history_vars, calls, thread_vars, manager_vars>>

NextScore == ScoreGreeks \/ RaiseGamma

SpecScore == Init /\ [][NextScore]_vars

\* the score of a vector in real arithmetic, in units of 1/20000:
\* 0.25 * min(|nd| / 100, 100) * 20000 = 50 * min(|nd|, 10000), and so on
UnitsOfGreeks(greeks) ==
    CHOOSE u \in DeltaUnits \X GammaUnits \X ThetaUnits \X VegaUnits :
        GreeksOf[u[1], u[2], u[3], u[4]] = greeks

ExactScoreUnits(u) ==
    50 * MinOf[AbsInt[u[1]], 10000] + 70 * MinOf[AbsInt[u[2]], 10000]
        + 40 * MinOf[AbsInt[u[3]], 10000] + 20 * MinOf[AbsInt[u[4]], 20000]

ScoreOfUnits(n) == RatioRound[FALSE, BOfInt[n], BOfInt[20000], 0]

\* C11: compute_risk_score returns the weighted sum of the four capped
\* components, clamped to [0, 100]: the result is the float the formula
\* gives, it is within 1/20000 of the formula's real value, and it is a
\* number in [0, 100] for every finite Greeks vector.
C11_ScoreFormulaAndRange ==
    op = "compute_risk_score" =>
        /\ returned.k = "fin"
        /\ fge(returned, FZero)
        /\ fle(returned, Hundred)
        /\ returned =
               np_clip(fadd(fadd(fadd(
                   fmul(Dec[25, -2], py_min(fmul(fabs(arg.delta), Dec[100, 0]), Dec[100, 0])),
                   fmul(Dec[35, -2], py_min(fmul(fabs(arg.gamma), Dec[1000, 0]), Dec[100, 0]))),
                   fmul(Dec[20, -2], py_min(fmul(fabs(arg.theta), Dec[10, 0]), Dec[100, 0]))),
                   fmul(Dec[20, -2], py_min(fmul(fabs(arg.vega), Dec[5, 0]), Dec[100, 0]))),
                   Dec[0, 0], Dec[100, 0])
        /\ LET n == ExactScoreUnits(UnitsOfGreeks(arg))
           IN /\ fge(returned, ScoreOfUnits(MaxOf[n - 1, 0]))
              /\ fle(returned, ScoreOfUnits(n + 1))

\* every component capped, delta and gamma negative: the score is 100
C11_Witness ==
    /\ op = "compute_risk_score"
    /\ arg = GreeksOf[25000, -25000, -12000, 30000]
    /\ returned = Hundred

\* C12: of two Greeks vectors that agree on delta, theta and vega, the one
\* with the larger |gamma| has a score at least as large, and once
\* |gamma| * 1000 >= 100 the score no longer moves.
C12_MonotoneInGamma ==
    op = "compute_risk_score_pair" =>
        /\ fle(returned[1], returned[2])
        /\ fge(fabs(arg[1].gamma), Dec[1, -1]) => returned[1] = returned[2]

\* |gamma| moves from 0.0012 to 0.05 and the score goes up
C12_Witness ==
    /\ op = "compute_risk_score_pair"
    /\ arg[1].delta = arg[2].delta
    /\ arg[1].gamma = Dec[-120, -5]
    /\ arg[2].gamma = Dec[5000, -5]
    /\ flt(returned[1], returned[2])

\* ------------------------------------------------------------------------
\* A noisy stream: snapshots with NaN, zero and near-zero Greeks among
\* regular ones
\* ------------------------------------------------------------------------
\* delta is NaN; gamma +20% and the regime moves
SNaNDelta == Snap["T2", "GC", FNaN, Dec[12, -4], T050, V200, "FRAGILE"]
\* every Greek is NaN
SNaNAll == Snap["T3", "GC", FNaN, FNaN, FNaN, FNaN, "SENSITIVE"]

\* Greeks below 1e-10 in magnitude without being zero
STiny == Snap["T4", "GC", Dec[5, -11], Dec[-5, -11], FZero, Dec[9, -11], "STABLE"]
\* delta, gamma and theta at their thresholds as absolute values, vega above
SCutoff == Snap["T6", "GC", Dec[5, -2], Dec[10, -2], Dec[-5, -2], Dec[11, -2], "STABLE"]

NoisySnapshots == {SBase, SStep, SZero, SNaNDelta, SNaNAll, STiny, SCutoff}

FeedNoisy ==
    /\ calls < MaxCalls
    /\ \E s \in NoisySnapshots : detect_events(s)
    /\ calls' = calls + 1

NextNoisy == FeedNoisy \/ clear_history

SpecNoisy == Init /\ [][NextNoisy]_vars

\* C13: on a warm call, a Greek that is NaN in the incoming snapshot yields no
\* event of its type; the call still returns its list (every value in it is a
\* float or NaN, none the mark of a raised division), the Greeks that are
\* numbers on both sides are still decided by their relative change, the
\* regime is still compared, and the incoming snapshot becomes the previous one.
C13_NaNFieldSkipped ==
    WarmCall =>
        /\ \A i \in 1..Len(GreekFields) :
               IsNaN(arg[GreekFields[i]]) =>
                   ~HasEvent(returned, EventTypeOf(GreekFields[i]))
        /\ \A i \in 1..Len(returned) :
               /\ returned[i].old_value.k # "zerodiv"
               /\ returned[i].new_value.k # "zerodiv"
               /\ returned[i].change_pct.k # "zerodiv"
        /\ \A i \in 1..Len(GreekFields) :
               (/\ ~IsNaN(arg[GreekFields[i]])
                /\ ~IsNaN(old_metrics[GreekFields[i]])
                /\ fge(fabs(old_metrics[GreekFields[i]]), Tiny)) =>
                   (HasEvent(returned, EventTypeOf(GreekFields[i]))
                    <=> fge(RelChange(old_metrics[GreekFields[i]], arg[GreekFields[i]]),
                            ThresholdOf(risk_thresholds, GreekFields[i])))
        /\ HasEvent(returned, "REGIME_CHANGE")
           <=> old_metrics.risk_regime # arg.risk_regime
        /\ previous_metrics = arg

\* delta arrives as NaN while gamma and the regime move: GAMMA and REGIME
\* events, no DELTA event, and the NaN snapshot is the previous one
C13_Witness ==
    /\ WarmCall
    /\ old_metrics = SBase
    /\ arg = SNaNDelta
    /\ EventTypes(returned) = <<"GAMMA_CHANGE", "REGIME_CHANGE">>
    /\ previous_metrics = SNaNDelta

\* ------------------------------------------------------------------------
\* Constructing the configuration (src/config/settings.py)
\* ------------------------------------------------------------------------
\* cutoffs a caller may pass: below 0, the defaults, equal, inverted, above 100
CutoffChoices == {Dec[n, 0] : n \in {-10, 0, 30, 65, 100, 150}}

\* RiskThresholds(stable_max=..., sensitive_max=...), stored in
\* config.risk_thresholds: the dataclass assigns the fields and __post_init__
\* fills shock_scenarios only; no value is refused
RiskThresholds(stable_max, sensitive_max) ==
    /\ op = "__init__"
    /\ risk_thresholds' = [DefaultThresholds EXCEPT !.stable_max = stable_max,
                                                    !.sensitive_max = sensitive_max]
    /\ op' = "RiskThresholds"
    /\ arg' = <<stable_max, sensitive_max>>
    /\ returned' = "constructed"
    /\ UNCHANGED <<previous_metrics, event_history, history_vars, calls, thread_vars, manager_vars>>

Configure ==
    \E stable_max \in CutoffChoices, sensitive_max \in CutoffChoices :
        RiskThresholds(stable_max, sensitive_max)

\* a tick is processed under the constructed configuration
ClassifyTick ==
    /\ op \in {"RiskThresholds", "determine_risk_regime"}
    /\ \E risk_score \in {Dec[n, 0] : n \in {0, 30, 50, 65, 100}} :
           /\ op' = "determine_risk_regime"
           /\ arg' = risk_score
           /\ returned' = determine_risk_regime(risk_score, risk_thresholds)
    /\ UNCHANGED <<risk_thresholds, previous_metrics, event_history,
                   history_vars, calls, thread_vars, manager_vars>>

NextConfig == Configure \/ ClassifyTick

SpecConfig == Init /\ [][NextConfig]_vars

ValidCutoffs(thresholds) ==
    /\ fle(FZero, thresholds.stable_max)
    /\ flt(thresholds.stable_max, thresholds.sensitive_max)
    /\ fle(thresholds.sensitive_max, Hundred)

\* C14: cutoffs that violate 0 <= stable_max < sensitive_max <= 100 are
\* refused when the configuration is constructed: no constructed
\* configuration holds such cutoffs, and determine_risk_regime never runs
\* under them.
C14_InvalidCutoffsRejected ==
    /\ (op = "RiskThresholds" /\ returned = "constructed")
           => ValidCutoffs(risk_thresholds)
    /\ op = "determine_risk_regime" => ValidCutoffs(risk_thresholds)

\* ------------------------------------------------------------------------
\* Ticks and time to expiration (src/config/instruments.py,
\* src/pathway_pipeline/risk.py)
\* ------------------------------------------------------------------------
\* A datetime is [t, aware]: t in seconds after the instant the module was
\* imported, aware = it carries a tzinfo.  A timestamp string is
\* [iso, body, suffix]: iso = the text is an ISO-8601 date and time, body the
\* instant it spells, suffix its zone designator ("" for none).
SecondsPerDay == 86400

\* DEFAULT_OPTION.expiration = datetime.now() + timedelta(days=90), naive
expiration == [t |-> 90 * SecondsPerDay, aware |-> FALSE]

Raised(exception) == [raised |-> exception]
IsRaised(v) == DOMAIN v = {"raised"}

\* Python's max(p, q): q when q > p, else p
py_max(p, q) == IF fgt(q, p) THEN q ELSE p

\* timestamp.replace('Z', '+00:00')
replace_Z(timestamp) ==
    IF timestamp.suffix = "Z" THEN [timestamp EXCEPT !.suffix = "+00:00"]
    ELSE timestamp

\* datetime.fromisoformat: ValueError on text that is no ISO date; a zone
\* designator makes the datetime aware
fromisoformat(timestamp) ==
    IF ~timestamp.iso THEN Raised("ValueError")
    ELSE [t |-> timestamp.body, aware |-> timestamp.suffix # ""]

\* the time to expiration is floored at zero
time_to_expiration_years_floor_zero(current_time) ==
    IF current_time.aware # expiration.aware THEN Raised("TypeError")
    ELSE LET days_remaining == (expiration.t - current_time.t) \div SecondsPerDay
         IN  py_max(fdiv(Dec[days_remaining, 0], Dec[365, 0]), FZero)

\* OptionContract.time_to_expiration_years(current_time), current_time given:
\* subtracting an aware datetime from the naive expiration raises TypeError;
\* timedelta.days is the floor of the difference in days
time_to_expiration_years(current_time) ==
    IF current_time.aware # expiration.aware THEN Raised("TypeError")
    ELSE LET days_remaining == (expiration.t - current_time.t) \div SecondsPerDay
         IN  py_max(fdiv(Dec[days_remaining, 0], Dec[365, 0]), Dec[1, -4])

\* compute_full_risk_metrics(underlying_price, timestamp, instrument_id), with
\* wall_clock what datetime.now() reads.  The Greeks, score, regime and
\* shocks are functions of the price and the time to expiration and raise
\* nothing for a positive price; the snapshot is kept as the inputs, the
\* current time used and the time to expiration it led to.
compute_full_risk_metrics(underlying_price, timestamp, instrument_id, wall_clock) ==
    LET parsed == fromisoformat(replace_Z(timestamp))
        current_time == IF IsRaised(parsed) THEN wall_clock ELSE parsed
        tte == time_to_expiration_years(current_time)
    IN  IF IsRaised(tte) THEN tte
        ELSE [timestamp |-> timestamp,
              instrument_id |-> instrument_id,
              underlying_price |-> underlying_price,
              current_time |-> current_time,
              time_to_expiration |-> tte]

TimestampStrings ==
    {[iso |-> TRUE, body |-> t, suffix |-> z] :
        t \in {0, 89 * SecondsPerDay + 1, 91 * SecondsPerDay},
        z \in {"", "Z", "+00:00", "+05:30"}}
        \cup {[iso |-> FALSE, body |-> 0, suffix |-> ""]}

Prices == {Dec[20505, -1], Dec[1, -2]}

\* the risk UDF of the pipeline computes the metrics of one tick
Tick ==
    /\ op = "__init__"
    /\ \E underlying_price \in Prices, timestamp \in TimestampStrings,
          instrument_id \in Instruments, wall \in {SecondsPerDay, 91 * SecondsPerDay} :
           /\ op' = "compute_full_risk_metrics"
           /\ arg' = [underlying_price |-> underlying_price,
                      timestamp |-> timestamp,
                      instrument_id |-> instrument_id,
                      now |-> [t |-> wall, aware |-> FALSE]]
           /\ returned' = compute_full_risk_metrics(underlying_price, timestamp,
                                                    instrument_id, arg'.now)
    /\ UNCHANGED <<risk_thresholds, previous_metrics, event_history,
                   history_vars, calls, thread_vars, manager_vars>>

\* DEFAULT_OPTION.time_to_expiration_years(current_time) at instants from the
\* import to long after the expiration, around the expiration to the second
TimeToExpiration ==
    /\ op = "__init__"
    /\ \E t \in {0, SecondsPerDay, 89 * SecondsPerDay, 89 * SecondsPerDay + 1,
                90 * SecondsPerDay - 1, 90 * SecondsPerDay, 90 * SecondsPerDay + 1,
                91 * SecondsPerDay, 490 * SecondsPerDay},
          aware \in BOOLEAN :
           /\ op' = "time_to_expiration_years"
           /\ arg' = [t |-> t, aware |-> aware]
           /\ returned' = time_to_expiration_years(arg')
    /\ UNCHANGED <<risk_thresholds, previous_metrics, event_history,
                   history_vars, calls, thread_vars, manager_vars>>

NextTicks == Tick \/ TimeToExpiration

SpecTicks == Init /\ [][NextTicks]_vars

\* C15: compute_full_risk_metrics returns a snapshot for every tick with a
\* positive price whatever its timestamp string, and no exception escapes: a
\* timestamp that parses, naive or with a zone designator such as Z, is the
\* current time of the time to expiration, one that does not parse is
\* replaced by the wall clock.
C15_EveryTimestampYieldsSnapshot ==
    op = "compute_full_risk_metrics" =>
        /\ ~IsRaised(returned)
        /\ returned.current_time.t =
               IF ~arg.timestamp.iso THEN arg.now.t
               ELSE arg.timestamp.body

\* C16: time_to_expiration_years(now) returns max(whole days remaining / 365,
\* 0.0001), a float of at least 0.0001, for every now: before, at and after
\* the expiration instant.
C16_TimeToExpirationPositive ==
    op = "time_to_expiration_years" =>
        /\ ~IsRaised(returned)
        /\ fge(returned, Dec[1, -4])
        /\ LET whole_days == (90 * SecondsPerDay - arg.t) \div SecondsPerDay
           IN  returned =
                   IF whole_days >= 1
                   THEN RatioRound[FALSE, BOfInt[whole_days], BOfInt[365], 0]
                   ELSE Dec[1, -4]

\* ------------------------------------------------------------------------
\* Shock scenarios (src/pathway_pipeline/risk.py)
\* ------------------------------------------------------------------------
\* floor(a / 2^k)
BShr[a \in Big, k \in Nat] == IF k = 0 THEN a ELSE BShr[BHalf[a], k - 1]

BToInt[a \in Big] == IF a = <<>> THEN 0 ELSE a[1] + LimbBase * BToInt[Tail(a)]

\* int(v) of a finite float: truncation towards zero
py_int(v) ==
    LET n == BToInt[IF v.e >= 0 THEN BShl[v.m, v.e] ELSE BShr[v.m, -v.e]]
    IN  IF v.neg THEN -n ELSE n

\* f"shock_{'+' if shock_pct >= 0 else ''}{int(shock_pct * 100)}pct": the
\* text is given by whether the '+' is written and by the integer printed
\* (a negative integer prints its own '-')
shock_label(shock_pct) ==
    [plus |-> fge(shock_pct, FZero), percent |-> py_int(fmul(shock_pct, Hundred))]

\* compute_shock_scenarios over config.risk_thresholds.shock_scenarios: the
\* dictionary label -> shocked Greeks, a later entry replacing an earlier one
\* of the same label.  The shocked Greeks are kept as the fraction they were
\* computed for.
compute_shock_scenarios(shock_scenarios) ==
    [label \in {shock_label(shock_scenarios[i]) : i \in DOMAIN shock_scenarios} |->
        LET last == CHOOSE i \in DOMAIN shock_scenarios :
                        /\ shock_label(shock_scenarios[i]) = label
                        /\ \A j \in DOMAIN shock_scenarios :
                               shock_label(shock_scenarios[j]) = label => j <= i
        IN  shock_scenarios[last]]

MaxScenarios == 2

\* fractions in thousandths: the defaults, half percents, and whole percents
\* whose product with 100 is not a whole number in binary
ShockMilli == {10, 50, -10, -50, 15, 5, -5, 290, 560, 570}

ShockLists ==
    UNION {[1..n -> {Dec[k, -3] : k \in ShockMilli}] : n \in 1..MaxScenarios}
        \cup {<<Dec[10, -3], Dec[50, -3], Dec[-10, -3], Dec[-50, -3]>>}

\* RiskThresholds(shock_scenarios=[...]) and one compute_shock_scenarios call
ShockScenarios ==
    /\ op = "__init__"
    /\ \E shock_scenarios \in ShockLists :
           /\ op' = "compute_shock_scenarios"
           /\ arg' = shock_scenarios
           /\ returned' = compute_shock_scenarios(shock_scenarios)
    /\ UNCHANGED <<risk_thresholds, previous_metrics, event_history,
                   history_vars, calls, thread_vars, manager_vars>>

NextShock == ShockScenarios

SpecShock == Init /\ [][NextShock]_vars

MilliOf(shock_pct) == CHOOSE k \in ShockMilli : Dec[k, -3] = shock_pct

\* C17: for any ordered list of shock fractions compute_shock_scenarios
\* returns one labelled result per fraction; a fraction of a whole number of
\* percent is labelled with its own sign and percentage (+0.05 as +5,
\* -0.01 as -1), and two different fractions never get the same label.
C17_OneLabelPerFraction ==
    op = "compute_shock_scenarios" =>
        /\ Cardinality(DOMAIN returned) = Cardinality({arg[i] : i \in DOMAIN arg})
        /\ \A i \in DOMAIN arg :
               /\ shock_label(arg[i]) \in DOMAIN returned
               /\ MilliOf(arg[i]) % 10 = 0 =>
                      /\ shock_label(arg[i]).plus = (MilliOf(arg[i]) >= 0)
                      /\ shock_label(arg[i]).percent = MilliOf(arg[i]) \div 10
        /\ \A i, j \in DOMAIN arg :
               arg[i] # arg[j] => shock_label(arg[i]) # shock_label(arg[j])

\* ------------------------------------------------------------------------
\* Black-76 delta and gamma (src/pathway_pipeline/greeks.py)
\* ------------------------------------------------------------------------
\* np.exp, np.sqrt, norm.cdf and norm.pdf are library functions; a call of
\* compute_greeks is given with the values they return, lib = [discount,
\* sqrt_T, cdf_d1, cdf_neg_d1, pdf_d1], any values of their ranges, and the
\* arithmetic of lines 84-90 is applied to them.

\* the put delta without its minus sign
compute_greeks_put_unsigned(futures_price, volatility, option_type, lib) ==
    [delta |-> IF option_type = "call" THEN fmul(lib.discount, lib.cdf_d1)
               ELSE fmul(lib.discount, lib.cdf_neg_d1),
     gamma |-> fdiv(fmul(lib.discount, lib.pdf_d1),
                    fmul(fmul(futures_price, volatility), lib.sqrt_T))]

compute_greeks(futures_price, volatility, option_type, lib) ==
    [delta |-> IF option_type = "call" THEN fmul(lib.discount, lib.cdf_d1)
               ELSE fmul(fneg(lib.discount), lib.cdf_neg_d1),
     gamma |-> fdiv(fmul(lib.discount, lib.pdf_d1),
                    fmul(fmul(futures_price, volatility), lib.sqrt_T))]

\* discount > 0, sqrt(T) > 0, 0 <= cdf <= 1 with cdf(-d1) = 1 - cdf(d1),
\* 0 <= pdf <= 1/sqrt(2 pi), each at the ends and inside its range
LibraryValues ==
    {[discount |-> Dec[d, -6], sqrt_T |-> Dec[q, -2], cdf_d1 |-> Dec[c, -6],
      cdf_neg_d1 |-> fsub(Dec[1, 0], Dec[c, -6]), pdf_d1 |-> Dec[f, -6]] :
        d \in {500000, 988813, 1000000}, q \in {1, 50},
        c \in {0, 1, 300000, 999999, 1000000}, f \in {0, 50000, 398942}}

\* compute_greeks on a valid input: price > 0, volatility > 0
ComputeGreeks ==
    /\ op = "__init__"
    /\ \E futures_price \in Prices, option_type \in {"call", "put"}, lib \in LibraryValues :
           /\ op' = "compute_greeks"
           /\ arg' = [futures_price |-> futures_price, volatility |-> Dec[20, -2],
                      option_type |-> option_type, lib |-> lib]
           /\ returned' = compute_greeks(futures_price, Dec[20, -2], option_type, lib)
    /\ UNCHANGED <<risk_thresholds, previous_metrics, event_history,
                   history_vars, calls, thread_vars, manager_vars>>

NextGreeks == ComputeGreeks

SpecGreeks == Init /\ [][NextGreeks]_vars

C19_ChangePct ==
    WarmCall =>
        \A i \in 1..Len(GreekFields) :
            \A ev \in EventsOf(returned, EventTypeOf(GreekFields[i])) :
                LET old_value == old_metrics[GreekFields[i]]
                    new_value == arg[GreekFields[i]]
                IN  /\ ev.old_value = old_value
                    /\ ev.new_value = new_value
                    /\ IF fge(fabs(old_value), Tiny)
                       THEN /\ ev.change_pct =
                                   fmul(fdiv(fsub(new_value, old_value), old_value),
                                        Dec[100, 0])
                            /\ flt(ev.change_pct, FZero)
                               <=> (IF flt(old_value, FZero)
                                    THEN fgt(new_value, old_value)
                                    ELSE flt(new_value, old_value))
                       ELSE ev.change_pct =
                                IF flt(fabs(new_value), Tiny) THEN FZero
                                ELSE Dec[100, 0]

\* delta goes from 0.40 to -0.40: change_pct is -200
C19_Witness ==
    /\ WarmCall
    /\ old_metrics = SBase
    /\ arg = SPut
    /\ \E ev \in EventsOf(returned, "DELTA_CHANGE") :
           /\ ev.old_value = Dec[40, -2]
           /\ ev.new_value = Dec[-40, -2]
           /\ ev.change_pct = Dec[-200, 0]

\* C20: on a warm call a Greek whose previous value has |old| < 1e-10 gets
\* its event exactly when |new| is above the field's threshold taken as an
\* absolute cutoff, and nothing of such an event comes from a division by the
\* old value: change_pct is 0.0 or 100.0 and the severity is MEDIUM.
C20_NearZeroOld ==
    WarmCall =>
        \A i \in 1..Len(GreekFields) :
            (/\ ~IsNaN(old_metrics[GreekFields[i]])
             /\ flt(fabs(old_metrics[GreekFields[i]]), Tiny)) =>
                /\ HasEvent(returned, EventTypeOf(GreekFields[i]))
                   <=> fgt(fabs(arg[GreekFields[i]]),
                           ThresholdOf(risk_thresholds, GreekFields[i]))
                /\ \A ev \in EventsOf(returned, EventTypeOf(GreekFields[i])) :
                       /\ ev.change_pct \in {FZero, Dec[100, 0]}
                       /\ ev.severity = "MEDIUM"

\* near-zero Greeks move to the thresholds themselves: delta 0.05, gamma 0.10
\* and theta -0.05 are not above their cutoffs, vega 0.11 is
C20_Witness ==
    /\ WarmCall
    /\ old_metrics = STiny
    /\ arg = SCutoff
    /\ EventTypes(returned) = <<"VEGA_CHANGE">>

\* ------------------------------------------------------------------------
\* Black-76 price (src/pathway_pipeline/greeks.py)
\* ------------------------------------------------------------------------
\* black_76_price.  Past the expiry branch the code divides futures_price by
\* strike as Python floats (ZeroDivisionError on a zero strike) and hands the
\* ratio to np.log: NaN for a negative ratio, which every later operation
\* keeps; -inf for a zero ratio, so that d1 = d2 = -inf, cdf(d1) = cdf(d2) = 0
\* and cdf(-d1) = cdf(-d2) = 1; else the library values lib = [discount,
\* cdf_d1, cdf_d2].  Nothing tests the sign of futures_price or strike.
black_76_price(futures_price, strike, time_to_expiration, option_type, lib) ==
    IF fle(time_to_expiration, FZero)
    THEN IF option_type = "call"
         THEN py_max(fsub(futures_price, strike), FZero)
         ELSE py_max(fsub(strike, futures_price), FZero)
    ELSE IF IsZero[strike] THEN Raised("ZeroDivisionError")
    ELSE IF flt(fdiv(futures_price, strike), FZero) THEN FNaN
    ELSE LET zero_ratio == IsZero[fdiv(futures_price, strike)]
             cdf_d1 == IF zero_ratio THEN FZero ELSE lib.cdf_d1
             cdf_d2 == IF zero_ratio THEN FZero ELSE lib.cdf_d2
         IN  IF option_type = "call"
             THEN fmul(lib.discount,
                       fsub(fmul(futures_price, cdf_d1), fmul(strike, cdf_d2)))
             ELSE fmul(lib.discount,
                       fsub(fmul(strike, fsub(Dec[1, 0], cdf_d2)),
                            fmul(futures_price, fsub(Dec[1, 0], cdf_d1))))

\* black_76_price on prices and strikes below, at and above zero, before and
\* at expiry
PriceOption ==
    /\ op = "__init__"
    /\ \E futures_price \in {Dec[n, -2] : n \in {-500, 0, 1, 205050}},
          strike \in {Dec[n, 0] : n \in {-2100, 0, 2100}},
          time_to_expiration \in {Dec[n, -4] : n \in {-1, 0, 1, 2500}},
          option_type \in {"call", "put"},
          cdf_d1 \in {Dec[n, -2] : n \in {0, 45, 100}} :
           /\ op' = "black_76_price"
           /\ arg' = [futures_price |-> futures_price, strike |-> strike,
                      time_to_expiration |-> time_to_expiration,
                      option_type |-> option_type,
                      lib |-> [discount |-> Dec[988813, -6], cdf_d1 |-> cdf_d1,
                               cdf_d2 |-> fmul(cdf_d1, Dec[9, -1])]]
           /\ returned' = black_76_price(futures_price, strike, time_to_expiration,
                                         option_type, arg'.lib)
    /\ UNCHANGED <<risk_thresholds, previous_metrics, event_history,
                   history_vars, calls, thread_vars, manager_vars>>

NextKernel == PriceOption

SpecKernel == Init /\ [][NextKernel]_vars

\* C21: called with a non-positive underlying price or a non-positive
\* strike, the pricing kernel raises or returns a value that cannot be taken
\* for a price (NaN); it never returns a finite number.
C21_DomainViolationSignalled ==
    (/\ op = "black_76_price"
     /\ fle(arg.futures_price, FZero) \/ fle(arg.strike, FZero))
    => IsRaised(returned) \/ IsNaN(returned)

\* ------------------------------------------------------------------------
\* detect_events called from two threads on the global detector, without a
\* lock: each call is a sequence of steps on the shared fields
\* ------------------------------------------------------------------------
detector_frame == <<risk_thresholds, op, arg, returned, old_metrics, emitted,
                    fed_before, last_fed, last_of, same_prev, manager_vars>>

\* a thread enters detect_events(current_metrics): events = []
BeginCall(thread) ==
    /\ in_flight[thread].pc = "idle"
    /\ calls < MaxCalls
    /\ calls' = calls + 1
    /\ \E s \in HistSnapshots :
           in_flight' = [in_flight EXCEPT ![thread] =
                            [pc |-> "read", current_metrics |-> s,
                             prev |-> None, events |-> <<>>]]
    /\ overlapped' = (overlapped \/ \E other \in Threads \ {thread} :
                                        in_flight[other].pc # "idle")
    /\ UNCHANGED <<previous_metrics, event_history, detector_frame>>

\* lines 59-136: the previous snapshot is read and compared with the new one
ReadPrevious(thread) ==
    /\ in_flight[thread].pc = "read"
    /\ in_flight' = [in_flight EXCEPT
           ![thread].pc = "write",
           ![thread].prev = previous_metrics,
           ![thread].events =
               IF previous_metrics = None THEN <<>>
               ELSE CollectEvents(previous_metrics,
                                  in_flight[thread].current_metrics,
                                  risk_thresholds)]
    /\ UNCHANGED <<previous_metrics, event_history, calls, overlapped,
                   detector_frame>>

\* only the cold call stores its snapshot
WritePrevious_cold_only(thread) ==
    /\ in_flight[thread].pc = "write"
    /\ previous_metrics' =
           IF in_flight[thread].prev # None
           THEN previous_metrics
           ELSE in_flight[thread].current_metrics
    /\ in_flight' = [in_flight EXCEPT ![thread].pc =
                        IF in_flight[thread].prev = None THEN "return" ELSE "extend"]
    /\ UNCHANGED <<event_history, calls, overlapped, detector_frame>>

\* lines 61 and 138: self.previous_metrics = current_metrics; the cold call
\* returns right after it
WritePrevious(thread) ==
    /\ in_flight[thread].pc = "write"
    /\ previous_metrics' = in_flight[thread].current_metrics
    /\ in_flight' = [in_flight EXCEPT ![thread].pc =
                        IF in_flight[thread].prev = None THEN "return" ELSE "extend"]
    /\ UNCHANGED <<event_history, calls, overlapped, detector_frame>>

\* line 141: self.event_history.extend(events)
ExtendHistory(thread) ==
    /\ in_flight[thread].pc = "extend"
    /\ event_history' = event_history \o in_flight[thread].events
    /\ in_flight' = [in_flight EXCEPT ![thread].pc = "trim"]
    /\ UNCHANGED <<previous_metrics, calls, overlapped, detector_frame>>

\* lines 144-145: the history is cut to its last max_history_size events
TrimStep(thread) ==
    /\ in_flight[thread].pc = "trim"
    /\ event_history' = TrimHistory(event_history)
    /\ in_flight' = [in_flight EXCEPT ![thread].pc = "return"]
    /\ UNCHANGED <<previous_metrics, calls, overlapped, detector_frame>>

\* lines 62 and 147: return events
ReturnEvents(thread) ==
    /\ in_flight[thread].pc = "return"
    /\ op' = "detect_events"
    /\ arg' = in_flight[thread].current_metrics
    /\ returned' = in_flight[thread].events
    /\ old_metrics' = in_flight[thread].prev
    /\ emitted' = emitted \o in_flight[thread].events
    /\ fed_before' = last_fed
    /\ last_fed' = in_flight[thread].current_metrics
    /\ in_flight' = [in_flight EXCEPT ![thread] = Idle]
    /\ UNCHANGED <<risk_thresholds, previous_metrics, event_history, last_of,
                   same_prev, calls, overlapped, manager_vars>>

NextConcurrent ==
    \E thread \in Threads :
        \/ BeginCall(thread)
        \/ ReadPrevious(thread)
        \/ WritePrevious(thread)
        \/ ExtendHistory(thread)
        \/ TrimStep(thread)
        \/ ReturnEvents(thread)

SpecConcurrent == Init /\ [][NextConcurrent]_vars

\* C22: as long as no two detect_events calls were ever in progress at the
\* same time, then whenever a call has returned and none is in progress, the
\* call compared its snapshot with the snapshot of the call before it, its
\* own snapshot is the previous one, and the
\* history holds every event returned so far (the last max_history_size).
\* The witness is the interleaving without a lock in which this fails: a warm
\* call returns that was compared with a snapshot older than the one fed
\* just before it.
C22_SerializedCallsKeepGuarantees ==
    (/\ ~overlapped
     /\ op = "detect_events"
     /\ \A thread \in Threads : in_flight[thread].pc = "idle")
        => /\ old_metrics = fed_before
           /\ previous_metrics = last_fed
           /\ event_history =
                  IF Len(emitted) > max_history_size
                  THEN LastN(emitted, max_history_size) ELSE emitted

C22_Witness ==
    /\ overlapped
    /\ op = "detect_events"
    /\ old_metrics # None
    /\ old_metrics # fed_before

\* ------------------------------------------------------------------------
\* ProducerManager: the controlling thread calls its methods one at a time;
\* the _stream_worker threads it started run beside it
\* ------------------------------------------------------------------------
\* the fields of the manager at the start of a method (publish_thread is 0
\* for None, else the number of the worker thread)
self ==
    [provider |-> provider, producer |-> producer, is_running |-> is_running,
     publish_thread |-> publish_thread, workers |-> workers,
     call_log |-> <<>>, ret |-> None]

NewThread(m) ==
    CHOOSE w \in 1..MaxWorkers :
        /\ m.workers[w] = "unborn"
        /\ \A v \in 1..(w - 1) : m.workers[v] # "unborn"

\* a second start is accepted while streaming is active
start_streaming_unguarded(m) ==
    IF m.provider = None \/ m.producer = None
    THEN [m EXCEPT !.ret = FALSE]
    ELSE [m EXCEPT !.is_running = TRUE,
                   !.publish_thread = NewThread(m),
                   !.workers[NewThread(m)] = "alive",
                   !.call_log = Append(@, "start_streaming"),
                   !.ret = TRUE]

start_streaming(m) ==
    IF m.is_running
    THEN [m EXCEPT !.ret = FALSE]
    ELSE IF m.provider = None \/ m.producer = None
    THEN [m EXCEPT !.ret = FALSE]
    ELSE [m EXCEPT !.is_running = TRUE,
                   !.publish_thread = NewThread(m),
                   !.workers[NewThread(m)] = "alive",
                   !.call_log = Append(@, "start_streaming"),
                   !.ret = TRUE]

\* join(timeout=5) returns either because the worker saw the flag and ended
\* (joined) or because the five seconds passed with the worker still blocked
stop_streaming(m, joined) ==
    [m EXCEPT !.is_running = FALSE,
              !.workers = IF m.publish_thread # 0 /\ joined
                             /\ m.workers[m.publish_thread] = "alive"
                          THEN [@ EXCEPT ![m.publish_thread] = "ended"]
                          ELSE @,
              !.call_log = Append(@, "stop_streaming"),
              !.ret = None]

\* if self.provider: self.provider.disconnect()
disconnect(m) ==
    IF m.provider = None THEN m
    ELSE [m EXCEPT !.provider.is_connected = FALSE,
                   !.call_log = Append(@, "disconnect")]

\* outcome: the constructor or connect() raised, connect() returned False, or
\* connect() returned True
_initialize_provider(m, provider_type, outcome) ==
    LET called == [m EXCEPT !.call_log = Append(@, "_initialize_provider")]
    IN  CASE outcome = "raised" -> [called EXCEPT !.ret = FALSE]
          [] outcome = "refused" ->
                 [called EXCEPT !.provider = [type |-> provider_type,
                                              is_connected |-> FALSE],
                                !.ret = FALSE]
          [] outcome = "connected" ->
                 [called EXCEPT !.provider = [type |-> provider_type,
                                              is_connected |-> TRUE],
                                !.ret = TRUE]

initialize(m, kafka_up, provider_type, outcome) ==
    IF ~kafka_up THEN [m EXCEPT !.ret = FALSE]
    ELSE _initialize_provider([m EXCEPT !.producer = [closed |-> FALSE]],
                              provider_type, outcome)

\* streaming is resumed whether or not the new provider connected
switch_provider_always_resumes(m, new_provider, joined, outcome) ==
    LET was_running == m.is_running
        stopped == IF was_running THEN stop_streaming(m, joined) ELSE m
        fresh == _initialize_provider(disconnect(stopped), new_provider, outcome)
        success == fresh.ret
    IN  [(IF was_running THEN start_streaming(fresh) ELSE fresh)
            EXCEPT !.ret = success]

switch_provider(m, new_provider, joined, outcome) ==
    LET was_running == m.is_running
        stopped == IF was_running THEN stop_streaming(m, joined) ELSE m
        fresh == _initialize_provider(disconnect(stopped), new_provider, outcome)
        success == fresh.ret
    IN  [(IF was_running /\ success THEN start_streaming(fresh) ELSE fresh)
            EXCEPT !.ret = success]

shutdown(m, joined) ==
    LET down == disconnect(stop_streaming(m, joined))
    IN  [down EXCEPT !.producer = IF @ = None THEN @ ELSE [closed |-> TRUE],
                     !.ret = None]

manager_frame == <<risk_thresholds, previous_metrics, event_history,
                   history_vars, calls, thread_vars>>

\* a method has run from the fields in `before` to the fields in m
Called(method, before, m) ==
    /\ op' = method
    /\ arg' = before
    /\ returned' = m.ret
    /\ provider' = m.provider
    /\ producer' = m.producer
    /\ is_running' = m.is_running
    /\ publish_thread' = m.publish_thread
    /\ workers' = m.workers
    /\ call_log' = m.call_log
    /\ UNCHANGED <<published, manager_frame>>

ThreadLeft == \E w \in 1..MaxWorkers : workers[w] = "unborn"

Initialize ==
    \E kafka_up \in BOOLEAN, provider_type \in {"polygon", "historical"},
       outcome \in {"raised", "refused", "connected"} :
        Called("initialize", self, initialize(self, kafka_up, provider_type, outcome))

StartStreaming ==
    /\ ThreadLeft
    /\ Called("start_streaming", self, start_streaming(self))

StopStreaming ==
    \E joined \in BOOLEAN :
        Called("stop_streaming", self, stop_streaming(self, joined))

SwitchProvider ==
    /\ ThreadLeft
    /\ \E new_provider \in {"polygon", "historical"}, joined \in BOOLEAN,
          outcome \in {"raised", "refused", "connected"} :
           Called("switch_provider", [self EXCEPT !.ret = outcome],
                  switch_provider(self, new_provider, joined, outcome))

Shutdown ==
    \E joined \in BOOLEAN : Called("shutdown", self, shutdown(self, joined))

\* get_status(): the fields of the status that come from the manager
GetStatus ==
    Called("get_status", self,
           [self EXCEPT !.call_log = call_log,
                        !.ret = [is_running |-> is_running,
                                 provider_connected |->
                                     IF provider = None THEN FALSE
                                     ELSE provider.is_connected]])

\* a step of a worker thread leaves the other fields alone
WorkerStep ==
    /\ op' = "_stream_worker"
    /\ arg' = None
    /\ returned' = None
    /\ UNCHANGED <<provider, producer, publish_thread, call_log, manager_frame>>

\* _stream_worker: the provider yields an event while is_running is set and
\* the worker sends it to Kafka
WorkerPublishes(w) ==
    /\ workers[w] = "alive"
    /\ is_running
    /\ Len(published) < MaxPublished
    /\ published' = Append(published, <<w, publish_thread>>)
    /\ UNCHANGED <<is_running, workers>>
    /\ WorkerStep

\* the provider yields an event while is_running is cleared: break
WorkerStops(w) ==
    /\ workers[w] = "alive"
    /\ ~is_running
    /\ workers' = [workers EXCEPT ![w] = "ended"]
    /\ UNCHANGED <<is_running, published>>
    /\ WorkerStep

\* the provider's stream ends (a historical replay is complete): the loop and
\* the thread end
WorkerExhausted(w) ==
    /\ workers[w] = "alive"
    /\ workers' = [workers EXCEPT ![w] = "ended"]
    /\ UNCHANGED <<is_running, published>>
    /\ WorkerStep

\* the provider or send_event raises: except Exception clears is_running
WorkerFails(w) ==
    /\ workers[w] = "alive"
    /\ workers' = [workers EXCEPT ![w] = "ended"]
    /\ is_running' = FALSE
    /\ UNCHANGED published
    /\ WorkerStep

NextManager ==
    \/ Initialize
    \/ StartStreaming
    \/ StopStreaming
    \/ SwitchProvider
    \/ Shutdown
    \/ GetStatus
    \/ \E w \in 1..MaxWorkers :
           \/ WorkerPublishes(w)
           \/ WorkerStops(w)
           \/ WorkerExhausted(w)
           \/ WorkerFails(w)

SpecManager == Init /\ [][NextManager]_vars

\* C23: start_streaming returns False, starts no thread and leaves every
\* field as it was when streaming is already active or when the provider or
\* the producer is None; otherwise it returns True, sets is_running and starts
\* exactly one worker thread, which becomes publish_thread.
C23_StartStreaming ==
    op = "start_streaming" =>
        IF arg.is_running \/ arg.provider = None \/ arg.producer = None
        THEN /\ returned = FALSE
             /\ is_running = arg.is_running
             /\ workers = arg.workers
             /\ publish_thread = arg.publish_thread
        ELSE /\ returned = TRUE
             /\ is_running
             /\ arg.workers[publish_thread] = "unborn"
             /\ workers = [arg.workers EXCEPT ![publish_thread] = "alive"]

C23_Witness ==
    /\ op = "start_streaming"
    /\ arg.is_running
    /\ arg.provider # None
    /\ arg.producer # None
    /\ returned = FALSE

\* C24: switch_provider calls stop_streaming (when streaming was active),
\* disconnect (when a provider was set) and _initialize_provider in that
\* order, and start_streaming after them exactly when streaming was active
\* and the new provider connected; it returns True exactly when the new
\* provider connected, and afterwards is_running is set exactly when
\* streaming was resumed, with one new worker thread and none otherwise.
C24_SwitchProvider ==
    op = "switch_provider" =>
        LET success == arg.ret = "connected"
            resumed == arg.is_running /\ success
        IN  /\ returned = success
            /\ is_running = resumed
            /\ call_log =
                   (IF arg.is_running THEN <<"stop_streaming">> ELSE <<>>)
                   \o (IF arg.provider # None THEN <<"disconnect">> ELSE <<>>)
                   \o <<"_initialize_provider">>
                   \o (IF resumed THEN <<"start_streaming">> ELSE <<>>)
            /\ resumed => /\ arg.workers[publish_thread] = "unborn"
                          /\ workers[publish_thread] = "alive"
            /\ \A w \in 1..MaxWorkers :
                   (arg.workers[w] = "unborn" /\ workers[w] # "unborn")
                       => (resumed /\ w = publish_thread)

C24_Witness ==
    /\ op = "switch_provider"
    /\ arg.is_running
    /\ arg.provider # None
    /\ returned = TRUE
    /\ is_running
    /\ call_log = <<"stop_streaming", "disconnect", "_initialize_provider",
                    "start_streaming">>

\* C25: every event sent to Kafka was sent by the worker thread that was
\* started last (publish_thread at the time of the send), so a worker started
\* before a stop_streaming sends nothing once a later start_streaming has
\* started a new worker.
C25_OnlyLatestWorkerPublishes ==
    \A i \in 1..Len(published) : published[i][1] = published[i][2]

\* C26: is_running is set only while the worker thread started last is
\* still active.
C26_RunningOnlyWhileWorkerActive ==
    is_running => (publish_thread # 0 /\ workers[publish_thread] = "alive")

\* ------------------------------------------------------------------------
\* Reading the history
\* ------------------------------------------------------------------------
\* lines 194-196: self.event_history[-count:]; the slice starts count places
\* before the end for a positive count and -count places after the start
\* otherwise, so that [-0:] is the whole list
get_recent_events(h, count) ==
    IF count > 0
    THEN SubSeq(h, (IF Len(h) - count > 0 THEN Len(h) - count ELSE 0) + 1, Len(h))
    ELSE SubSeq(h, (IF 0 - count < Len(h) THEN 0 - count ELSE Len(h)) + 1, Len(h))

GetRecentEvents ==
    \E count \in {0, 1, 2, 10} :
        /\ op' = "get_recent_events"
        /\ arg' = [count |-> count, event_history |-> event_history,
                   previous_metrics |-> previous_metrics]
        /\ returned' = get_recent_events(event_history, count)
        /\ UNCHANGED <<risk_thresholds, previous_metrics, event_history,
                       history_vars, calls, thread_vars, manager_vars>>

NextRecent == FeedHistory \/ GetRecentEvents

SpecRecent == Init /\ [][NextRecent]_vars

\* C27: get_recent_events(count) with count >= 0 returns the last
\* min(count, len(event_history)) events of the history in their order, and
\* leaves the history and the previous snapshot as they were.
C27_RecentEvents ==
    op = "get_recent_events" =>
        LET n == IF arg.count < Len(arg.event_history)
                 THEN arg.count ELSE Len(arg.event_history)
        IN  /\ Len(returned) = n
            /\ \A i \in 1..n :
                   returned[i] = arg.event_history[Len(arg.event_history) - n + i]
            /\ event_history = arg.event_history
            /\ previous_metrics = arg.previous_metrics

\* C28: a clear_history step empties the history and leaves the previous
\* snapshot as it was, and the detect_events call that follows a
\* clear_history on a warm detector is a warm call: it is compared with the
\* last snapshot fed and returns the events of that comparison, which are
\* then the whole history.
C28_ClearHistoryKeepsPrevious ==
    [][/\ op' = "clear_history"
           => /\ event_history' = <<>>
              /\ previous_metrics' = previous_metrics
       /\ (op = "clear_history" /\ op' = "detect_events" /\ last_fed # None)
           => /\ old_metrics' = last_fed
              /\ returned' = CollectEvents(last_fed, arg', risk_thresholds)
              /\ event_history' = returned'
              /\ previous_metrics' = arg']_vars

C28_Witness ==
    /\ op = "clear_history"
    /\ previous_metrics # None
    /\ previous_metrics = last_fed
    /\ event_history = <<>>
    /\ calls < MaxCalls
    /\ \E s \in Snapshots : CollectEvents(previous_metrics, s, risk_thresholds) # <<>>

\* ------------------------------------------------------------------------
\* calculate_option_greeks: the time to expiration behind the price and
\* behind the Greeks of one result
\* ------------------------------------------------------------------------
\* greeks.py lines 36-45: the T of the Black-76 formula in black_76_price,
\* None when the intrinsic value is returned instead
black_76_time(time_to_expiration) ==
    IF fle(time_to_expiration, FZero) THEN None ELSE time_to_expiration

\* greeks.py lines 73-74: the T of the formulas in compute_greeks
compute_greeks_time(time_to_expiration) ==
    IF fle(time_to_expiration, Dec[1, -4]) THEN Dec[1, -4] ELSE time_to_expiration

\* calculate_option_greeks(underlying_price, current_time, volatility): the
\* result is kept as the time each of its two parts was computed with
calculate_option_greeks(underlying_price, current_time, volatility) ==
    LET tte == time_to_expiration_years(current_time)
    IN  IF IsRaised(tte) THEN tte
        ELSE [tte |-> tte,
              option_price |-> black_76_time(tte),
              greeks |-> compute_greeks_time(tte)]

CalculateOptionGreeks ==
    /\ op = "__init__"
    /\ \E underlying_price \in {Dec[20505, -1], Dec[21000, -1], Dec[1, -2]},
          t \in {0, SecondsPerDay, 89 * SecondsPerDay, 89 * SecondsPerDay + 1,
                 90 * SecondsPerDay - 1, 90 * SecondsPerDay, 90 * SecondsPerDay + 1,
                 91 * SecondsPerDay, 490 * SecondsPerDay},
          aware \in BOOLEAN,
          volatility \in {Dec[20, -2], Dec[35, -2]} :
           /\ op' = "calculate_option_greeks"
           /\ arg' = [underlying_price |-> underlying_price,
                      current_time |-> [t |-> t, aware |-> aware],
                      volatility |-> volatility]
           /\ returned' = calculate_option_greeks(underlying_price,
                                                  arg'.current_time, volatility)
    /\ UNCHANGED <<risk_thresholds, previous_metrics, event_history,
                   history_vars, calls, thread_vars, manager_vars>>

NextOption == CalculateOptionGreeks

SpecOption == Init /\ [][NextOption]_vars

\* C29: in every result calculate_option_greeks returns, the option price
\* comes from the Black-76 formula (not from the intrinsic value) and the
\* price and the Greeks are computed with the same time to expiration, the
\* one the instrument reports, at least 0.0001.
C29_SameTimeForPriceAndGreeks ==
    (op = "calculate_option_greeks" /\ ~IsRaised(returned))
        => /\ returned.option_price # None
           /\ returned.option_price = returned.greeks
           /\ returned.greeks = returned.tte
           /\ fge(returned.tte, Dec[1, -4])

C29_Witness ==
    /\ op = "calculate_option_greeks"
    /\ ~IsRaised(returned)
    /\ arg.current_time.t > expiration.t
    /\ returned.option_price = Dec[1, -4]
    /\ returned.greeks = Dec[1, -4]

\* C30: every Greek-change event returned by a warm call whose old value has
\* |old| < 1e-10, for a field whose threshold is at least 1e-10, has severity
\* MEDIUM and change_pct 100.0, however far the new value is above the
\* threshold.
C30_NearZeroOldIsMedium ==
    WarmCall =>
        \A i \in 1..Len(returned) :
            \A j \in 1..Len(GreekFields) :
                (/\ returned[i].event_type = EventTypeOf(GreekFields[j])
                 /\ flt(fabs(returned[i].old_value), Tiny)
                 /\ fge(ThresholdOf(risk_thresholds, GreekFields[j]), Tiny))
                    => /\ returned[i].severity = "MEDIUM"
                       /\ returned[i].change_pct = Hundred

\* delta goes from 5e-11 to 0.40, eight times its threshold of 0.05
C30_Witness ==
    /\ WarmCall
    /\ old_metrics = STiny
    /\ arg = SBase
    /\ \E i \in 1..Len(returned) :
           /\ returned[i].event_type = "DELTA_CHANGE"
           /\ returned[i].old_value = Dec[5, -11]
           /\ fge(fabs(returned[i].new_value),
                  fmul(risk_thresholds.delta_change_threshold, Three))
           /\ returned[i].severity = "MEDIUM"
           /\ returned[i].change_pct = Hundred

====
